---- MODULE Spec2Model ----
(***************************************************************************)
(* Model of python-with-ocr.                                               *)
(*                                                                         *)
(*   - the EAST detector pipeline, src/src/main.py, with the helpers of    *)
(*     src/src/services/tesseractUtils.py (candidate collection,           *)
(*     non-max suppression, ROI extraction);                               *)
(*   - the Tesseract flow, src/main.py, with the helpers of                *)
(*     src/tesseractUtils.py.                                              *)
(*                                                                         *)
(* Number representation.  Confidences are hundredths (0.9 is 90).         *)
(* Geometry distances are half pixels (a distance d stands for d/2 px),    *)
(* cosines and sines are tenths, so cos*distance is a count of 1/20 px.    *)
(* int() is truncation toward zero (TruncDiv).                             *)
(***************************************************************************)
EXTENDS Integers, Sequences, FiniteSets, TLC

VARIABLES
    prog,        \* what runs: "detector", "ocr", "nms", "calls" or "geom"
    pc,          \* position in the entry point
    exc,         \* exception that left the entry point, "none" if none
    log,         \* what the run printed and which engine calls it made
    file,        \* what the image path holds: "image", "missing", "pil_only"
    img,         \* <<width, height>> of the decoded image, <<0, 0>> before
    scores,      \* confidence map: cell <<y, x>> -> hundredths
    geometry,    \* geometry map: cell <<y, x>> -> <<d0, d1, d2, d3, angle>>
    boxs,        \* candidate boxes, the caller's list
    trust,       \* candidate scores, the caller's list
    last, \* locals startX, startY, endX, endY of generateTextBoundingBoxes
    detections,  \* boxes that non_max_suppression returned, in pick order
    pick,        \* indices non_max_suppression picked (into boxs)
    crops,       \* per detection, the slice extractAndDrawROI took
    roi,         \* what extractAndDrawROI returned
    again,       \* result of a second suppression run over detections
    earlier      \* <<boxs, trust>> as the call before the latest one left them

vars == <<prog, pc, exc, log, file, img, scores, geometry, boxs, trust, last,
          detections, pick, crops, roi, again, earlier>>

----------------------------------------------------------------------------
(* Bounds *)

Rows == 1
Columns == 2
MaxBoxes == 2
MaxLeft == 4
MaxBottom == 1

(* Program constants *)

width == 320
height == 320
min_confidence == 90
margin == 5
overlapNum == 3
overlapDen == 10
stride == 4

Cells == (0 .. Rows - 1) \X (0 .. Columns - 1)

ConfValues == {min_confidence - 1, min_confidence, min_confidence + 5}

\* Per-cell geometry the detector may report: <<d0, d1, d2, d3, angle>>.
\*   plain: 0.5, 1.5, 2.5, 1.0 px at angle 0
\*   tilted: a lone right distance of 11 px at the angle whose cosine is 0.8
\*           and sine -0.6 (about -36.9 degrees, inside EAST's +-45 degrees)
GeometryValues == { <<1, 3, 5, 2, "zero">>, <<0, 22, 0, 0, "tilt">> }

\* The geometry maps the detector may report: the same value in every cell,
\* or the two values alternating over the grid.
GeometryMaps ==
    { [c \in Cells |-> IF (c[1] + c[2]) % 2 = 0 THEN g ELSE h] :
        g \in GeometryValues, h \in GeometryValues }

\* Sizes of the decoded image: larger than the network input, equal to it,
\* and smaller than twice the crop margin.
ImageSizes == { <<1600, 1600>>, <<320, 320>>, <<8, 8>> }

Unbound == <<>>

NoRoi == [x0 |-> 0, x1 |-> 0, y0 |-> 0, y1 |-> 0, w |-> 0, h |-> 0]

----------------------------------------------------------------------------
(* Arithmetic helpers *)

Max(a, b) == IF a >= b THEN a ELSE b
Min(a, b) == IF a <= b THEN a ELSE b

\* int(n / d) for d > 0: truncation toward zero.
TruncDiv(n, d) == IF n >= 0 THEN n \div d ELSE -((-n) \div d)

\* np.cos / np.sin of the angle channel, in tenths: angle 0 ("zero"), the
\* angle of cosine 0.8 and sine -0.6 ("tilt"), and its opposite ("lean").
Cos(a) == IF a = "zero" THEN 10 ELSE 8
Sin(a) == IF a = "zero" THEN 0 ELSE IF a = "tilt" THEN -6 ELSE 6

----------------------------------------------------------------------------
(* tesseractUtils.geometryData: the five per-row planes of the geometry map *)

\* Mutant of geometryData: the right and left distance planes exchanged.
geometryDataSwapped(geo, y) ==
    [ xData0    |-> [x \in 0 .. Columns - 1 |-> geo[<<y, x>>][1]],
      xData1    |-> [x \in 0 .. Columns - 1 |-> geo[<<y, x>>][4]],
      xData2    |-> [x \in 0 .. Columns - 1 |-> geo[<<y, x>>][3]],
      xData3    |-> [x \in 0 .. Columns - 1 |-> geo[<<y, x>>][2]],
      angleData |-> [x \in 0 .. Columns - 1 |-> geo[<<y, x>>][5]] ]

geometryData(geo, y) ==
    [ xData0    |-> [x \in 0 .. Columns - 1 |-> geo[<<y, x>>][1]],
      xData1    |-> [x \in 0 .. Columns - 1 |-> geo[<<y, x>>][2]],
      xData2    |-> [x \in 0 .. Columns - 1 |-> geo[<<y, x>>][3]],
      xData3    |-> [x \in 0 .. Columns - 1 |-> geo[<<y, x>>][4]],
      angleData |-> [x \in 0 .. Columns - 1 |-> geo[<<y, x>>][5]] ]

(* tesseractUtils.geometryCalculations: one box <<startX, startY, endX, endY>>. *)
(* offsetX + cos*d1 + sin*d2 is summed in 1/20 px and truncated by int();      *)
(* endX - w is summed in half pixels and truncated by int().                    *)

\* Mutant of geometryCalculations: the width taken as a difference of the
\* two horizontal distances instead of their sum.
geometryCalculationsWidthDifference(angleData, xData0, xData1, xData2, xData3, x, y) ==
    LET offsetX == 20 * stride * x
        offsetY == 20 * stride * y
        cos  == Cos(angleData[x])
        sin  == Sin(angleData[x])
        h    == xData0[x] + xData2[x]
        w    == xData1[x] - xData3[x]
        endX == TruncDiv(offsetX + (cos * xData1[x]) + (sin * xData2[x]), 20)
        endY == TruncDiv(offsetY - (sin * xData1[x]) + (cos * xData2[x]), 20)
        startX == TruncDiv(2 * endX - w, 2)
        startY == TruncDiv(2 * endY - h, 2)
    IN  <<startX, startY, endX, endY>>

geometryCalculations(angleData, xData0, xData1, xData2, xData3, x, y) ==
    LET offsetX == 20 * stride * x
        offsetY == 20 * stride * y
        cos  == Cos(angleData[x])
        sin  == Sin(angleData[x])
        h    == xData0[x] + xData2[x]
        w    == xData1[x] + xData3[x]
        endX == TruncDiv(offsetX + (cos * xData1[x]) + (sin * xData2[x]), 20)
        endY == TruncDiv(offsetY - (sin * xData1[x]) + (cos * xData2[x]), 20)
        startX == TruncDiv(2 * endX - w, 2)
        startY == TruncDiv(2 * endY - h, 2)
    IN  <<startX, startY, endX, endY>>

----------------------------------------------------------------------------
(* tesseractUtils.generateTextBoundingBoxes, lines 138-146: the scan *)

\* Mutant of BelowMinimum: drops a score equal to the threshold too.
BelowOrAtMinimum(score, minimumTrust) == score <= minimumTrust

\* "if dataScores[x] < minimumTrust: continue"
BelowMinimum(score, minimumTrust) == score < minimumTrust

\* The cells in scan order (row-major), k = y * columns + x, from cell k on.
\* acc carries the two caller lists and the function's locals.
RECURSIVE ScanCells(_, _, _, _, _, _, _)
ScanCells(k, lines, columns, sc, geo, minimumTrust, acc) ==
    IF k >= lines * columns THEN acc
    ELSE LET y == k \div columns
             x == k % columns
             d == geometryData(geo, y)
             box == geometryCalculations(d.angleData, d.xData0, d.xData1,
                                         d.xData2, d.xData3, x, y)
         IN  IF BelowMinimum(sc[<<y, x>>], minimumTrust)
             THEN ScanCells(k + 1, lines, columns, sc, geo, minimumTrust, acc)
             ELSE ScanCells(k + 1, lines, columns, sc, geo, minimumTrust,
                            [ boxs  |-> Append(acc.boxs, box),
                              trust |-> Append(acc.trust, sc[<<y, x>>]),
                              last  |-> box ])

----------------------------------------------------------------------------
(* imutils.object_detection.non_max_suppression(boxes, probs), as called   *)
(* at tesseractUtils.py line 150 with the default overlapThresh = 0.3:     *)
(*   - no boxes: return the empty list;                                    *)
(*   - area = (x2 - x1 + 1) * (y2 - y1 + 1);  idxs = argsort(probs);       *)
(*   - while idxs is not empty: take i = idxs[last], append it to pick,    *)
(*     and delete from idxs the last entry and every j whose               *)
(*     intersection(i, j) / area[j] > overlapThresh;                       *)
(*   - return boxes[pick].                                                 *)
(* np.argsort's default sort is not stable: equal scores may come out in   *)
(* either order, so the order is an input of the operator.                 *)

Area(b) == (b[3] - b[1] + 1) * (b[4] - b[2] + 1)

InterArea(a, b) ==
    LET w == Max(0, Min(a[3], b[3]) - Max(a[1], b[1]) + 1)
        h == Max(0, Min(a[4], b[4]) - Max(a[2], b[2]) + 1)
    IN  w * h

\* Mutant of Overlaps: the threshold is one half instead of the default.
OverlapsAboveHalf(inter, area) ==
    IF area > 0 THEN 2 * inter > area
    ELSE IF area = 0 THEN inter > 0
    ELSE FALSE

\* "overlap > overlapThresh" for overlap = inter / area in floating point:
\* a zero area gives inf (> 0.3) or nan (not > 0.3).
Overlaps(inter, area) ==
    IF area > 0 THEN overlapDen * inter > overlapNum * area
    ELSE IF area = 0 THEN inter > 0
    ELSE FALSE

\* Every result np.argsort(probs) can return: the indices by ascending score,
\* equal scores in any order.
RECURSIVE OrdersOf(_, _)
OrdersOf(probs, rest) ==
    IF rest = {} THEN { <<>> }
    ELSE LET lows == { i \in rest : \A j \in rest : probs[i] <= probs[j] }
         IN  UNION { { <<i>> \o s : s \in OrdersOf(probs, rest \ {i}) } : i \in lows }

argsort(probs) == OrdersOf(probs, 1 .. Len(probs))

RECURSIVE Remaining(_, _, _)
Remaining(boxes, i, idxs) ==
    IF idxs = <<>> THEN <<>>
    ELSE LET j == Head(idxs)
             rest == Remaining(boxes, i, Tail(idxs))
         IN  IF Overlaps(InterArea(boxes[i], boxes[j]), Area(boxes[j]))
             THEN rest ELSE <<j>> \o rest

RECURSIVE SuppressLoop(_, _, _)
SuppressLoop(boxes, idxs, picked) ==
    IF idxs = <<>> THEN picked
    ELSE LET lastPos == Len(idxs)
             i == idxs[lastPos]
         IN  SuppressLoop(boxes, Remaining(boxes, i, SubSeq(idxs, 1, lastPos - 1)),
                          Append(picked, i))

\* Mutant of non_max_suppression: picks from the low end of the order.
non_max_suppression_lowest_first(boxes, order) ==
    IF Len(boxes) = 0 THEN <<>>
    ELSE SuppressLoop(boxes, [k \in 1 .. Len(order) |-> order[Len(order) + 1 - k]], <<>>)

\* The picked indices, in pick order; order is the argsort of the scores.
non_max_suppression(boxes, order) ==
    IF Len(boxes) = 0 THEN <<>> ELSE SuppressLoop(boxes, order, <<>>)

\* Mutant of PickedBoxes: the result is shifted by one pixel.
PickedBoxesShifted(boxes, picked) ==
    [k \in 1 .. Len(picked) |->
        <<boxes[picked[k]][1] + 1, boxes[picked[k]][2], boxes[picked[k]][3] + 1,
          boxes[picked[k]][4]>>]

\* "boxes[pick].astype('int')"
PickedBoxes(boxes, picked) == [k \in 1 .. Len(picked) |-> boxes[picked[k]]]

----------------------------------------------------------------------------
(* tesseractUtils.generateTextBoundingBoxes as a whole.  trust0 and boxs0  *)
(* are the lists the caller passes in; order is what np.argsort returns    *)
(* inside non_max_suppression.  The function's locals startX .. endY are   *)
(* bound only by a cell that passes the threshold; naming them in the      *)
(* return statement when no cell did raises UnboundLocalError.             *)

Scanned(lines, sc, geo, columns, minimumTrust, trust0, boxs0) ==
    ScanCells(0, lines, columns, sc, geo, minimumTrust,
              [boxs |-> boxs0, trust |-> trust0, last |-> Unbound])

generateTextBoundingBoxes(lines, sc, geo, columns, minimumTrust, trust0, boxs0, order) ==
    LET acc == Scanned(lines, sc, geo, columns, minimumTrust, trust0, boxs0)
        picked == non_max_suppression(acc.boxs, order)
    IN  [ boxs       |-> acc.boxs,
          trust      |-> acc.trust,
          last       |-> acc.last,
          pick       |-> picked,
          detections |-> PickedBoxes(acc.boxs, picked),
          raised     |-> IF acc.last = Unbound THEN "UnboundLocalError" ELSE "none" ]

----------------------------------------------------------------------------
(* tesseractUtils.extractAndDrawROI *)

\* A numpy slice bound i on an axis of length n: a negative bound counts
\* from the end, and the result is clipped to 0 .. n.
SliceBound(i, n) == IF i < 0 THEN Max(i + n, 0) ELSE Min(i, n)

\* cv2.resize's dsize = cvRound(1.5 * n): round half to even.
Upscaled(n) ==
    LET q == (3 * n) \div 2
    IN  IF (3 * n) % 2 = 0 THEN q ELSE IF q % 2 = 0 THEN q ELSE q + 1

\* One pass of the loop body, lines 177-181, on an image of size <<W, H>>.
\* int(c * proportion) for proportion = W / 320.0 (H / 320.0).
CropOf(box, size, mrg) ==
    LET startX == TruncDiv(box[1] * size[1], width)
        startY == TruncDiv(box[2] * size[2], height)
        endX   == TruncDiv(box[3] * size[1], width)
        endY   == TruncDiv(box[4] * size[2], height)
    IN  [ fromX |-> startX - mrg, toX |-> endX + mrg,
          fromY |-> startY - mrg, toY |-> endY + mrg,
          x0 |-> SliceBound(startX - mrg, size[1]),
          x1 |-> SliceBound(endX + mrg, size[1]),
          y0 |-> SliceBound(startY - mrg, size[2]),
          y1 |-> SliceBound(endY + mrg, size[2]) ]

CropWidth(c) == Max(0, c.x1 - c.x0)
CropHeight(c) == Max(0, c.y1 - c.y0)

\* Mutant of extractAndDrawROI: the crop is taken at the startX, startY,
\* endX, endY the caller passed in (main passes the locals that
\* generateTextBoundingBoxes returned) instead of at the last detection.
extractAndDrawROIFromArguments(size, dets, mrg) ==
    LET cs == [k \in 1 .. Len(dets) |-> CropOf(dets[k], size, mrg)]
    IN  IF Len(dets) = 0
        THEN [crops |-> cs, raised |-> "UnboundLocalError", roi |-> NoRoi]
        ELSE LET c == CropOf(last, size, mrg)
             IN  IF CropWidth(c) = 0 \/ CropHeight(c) = 0
                 THEN [crops |-> cs, raised |-> "cv2.error", roi |-> NoRoi]
                 ELSE [crops |-> cs, raised |-> "none",
                       roi |-> [x0 |-> c.x0, x1 |-> c.x1, y0 |-> c.y0, y1 |-> c.y1,
                                w |-> Upscaled(CropWidth(c)),
                                h |-> Upscaled(CropHeight(c))]]

\* regionOfInterest is overwritten on every pass; cv2.resize of an empty
\* array raises cv2.error; with no detection regionOfInterest is unbound.
\* The parameters startX, startY, endX, endY are rebound by the loop before
\* they are read, so they are not inputs of the operator.
extractAndDrawROI(size, dets, mrg) ==
    LET cs == [k \in 1 .. Len(dets) |-> CropOf(dets[k], size, mrg)]
    IN  IF Len(dets) = 0
        THEN [crops |-> cs, raised |-> "UnboundLocalError", roi |-> NoRoi]
        ELSE LET c == cs[Len(cs)]
             IN  IF CropWidth(c) = 0 \/ CropHeight(c) = 0
                 THEN [crops |-> cs, raised |-> "cv2.error", roi |-> NoRoi]
                 ELSE [crops |-> cs, raised |-> "none",
                       roi |-> [x0 |-> c.x0, x1 |-> c.x1, y0 |-> c.y0, y1 |-> c.y1,
                                w |-> Upscaled(CropWidth(c)),
                                h |-> Upscaled(CropHeight(c))]]

----------------------------------------------------------------------------
(* tesseractUtils.readImageWithOpenCV: cv2.imread returns None for a path  *)
(* it cannot decode; FileNotFoundError(..., end='\n\n') is then a call     *)
(* with a keyword argument the exception type does not take, which raises  *)
(* TypeError.  The result is the exception raised, "none" on a return.     *)

readImageWithOpenCV(f) == IF f # "image" THEN "TypeError" ELSE "none"

(* tesseractUtils.readImageWithPIL: Image.open raises FileNotFoundError on a *)
(* missing path.                                                             *)

readImageWithPIL(f) == IF f = "missing" THEN "FileNotFoundError" ELSE "none"

FileKinds == {"image", "missing", "pil_only"}

\* src/main.py, main: the switches set at lines 129-132.
viewImageWithBox == TRUE
advancedProcessing == TRUE

----------------------------------------------------------------------------
(* Initial states *)

NoMap == [c \in {} |-> 0]

Blank ==
    /\ exc = "none"
    /\ log = <<>>
    /\ img = <<0, 0>>
    /\ scores = NoMap
    /\ geometry = NoMap
    /\ last = Unbound
    /\ detections = <<>>
    /\ pick = <<>>
    /\ crops = <<>>
    /\ roi = NoRoi
    /\ again = <<>>
    /\ earlier = <<<<>>, <<>>>>

Init ==
    /\ prog \in {"detector", "ocr"}
    /\ pc = IF prog = "detector" THEN "load" ELSE "orientation"
    /\ file \in FileKinds
    /\ boxs = <<>>
    /\ trust = <<>>
    /\ Blank

Crash(e) ==
    /\ exc' = e
    /\ pc' = "crashed"

----------------------------------------------------------------------------
(* src/src/main.py, main *)

\* lines 12-14: load_and_prepare_image
MainLoad ==
    /\ prog = "detector" /\ pc = "load"
    /\ IF readImageWithOpenCV(file) # "none"
       THEN /\ Crash(readImageWithOpenCV(file))
            /\ UNCHANGED <<img, log>>
       ELSE /\ \E sz \in ImageSizes : img' = sz
            /\ log' = Append(log, "[INFO] Original shape")
            /\ pc' = "detect"
            /\ exc' = exc
    /\ UNCHANGED <<earlier, prog, file, scores, geometry, boxs, trust, last,
                   detections, pick, crops, roi, again>>

\* lines 16-17: useNeuralNetwork, the detector's two output maps
MainDetect ==
    /\ prog = "detector" /\ pc = "detect"
    /\ scores' \in [Cells -> ConfValues]
    /\ geometry' \in GeometryMaps
    /\ pc' = "generate"
    /\ UNCHANGED <<earlier, prog, exc, log, file, img, boxs, trust, last,
                   detections, pick, crops, roi, again>>

\* Mutant of FreshLists: the caller hands over the lists it already holds.
KeptLists == [boxs |-> boxs, trust |-> trust]

\* line 20, "boxes, confidences = [], []": the lists main passes to
\* generateTextBoundingBoxes are created empty right before the call.
FreshLists == [boxs |-> <<>>, trust |-> <<>>]

\* lines 19-27: fresh lists, generateTextBoundingBoxes, the empty check
MainGenerate ==
    /\ prog = "detector" /\ pc = "generate"
    /\ \E acc \in { Scanned(Rows, scores, geometry, Columns, min_confidence,
                             FreshLists.trust, FreshLists.boxs) } :
       \E order \in argsort(acc.trust) :
       \E g \in { generateTextBoundingBoxes(Rows, scores, geometry, Columns,
                                            min_confidence, FreshLists.trust,
                                            FreshLists.boxs, order) } :
             /\ boxs' = g.boxs
             /\ trust' = g.trust
             /\ last' = g.last
             /\ pick' = g.pick
             /\ detections' = g.detections
             /\ IF g.raised # "none"
                THEN Crash(g.raised) /\ log' = log
                ELSE IF Len(g.detections) = 0
                THEN /\ log' = Append(log, "[WARN] Nenhuma regiao de texto detectada.")
                     /\ pc' = "done"
                     /\ exc' = exc
                ELSE /\ pc' = "roi"
                     /\ UNCHANGED <<exc, log>>
    /\ UNCHANGED <<earlier, prog, file, img, scores, geometry, crops, roi, again>>

\* lines 29-32: extractAndDrawROI, the empty-ROI check
MainExtractROI ==
    /\ prog = "detector" /\ pc = "roi"
    /\ \E r \in { extractAndDrawROI(img, detections, margin) } :
           /\ crops' = r.crops
           /\ IF r.raised # "none"
              THEN Crash(r.raised) /\ UNCHANGED <<roi, log>>
              ELSE /\ roi' = r.roi
                   /\ exc' = exc
                   /\ IF r.roi.w * r.roi.h = 0
                      THEN /\ log' = Append(log, "[WARN] ROI vazia.")
                           /\ pc' = "done"
                      ELSE /\ pc' = "recognize"
                           /\ log' = log
    /\ UNCHANGED <<earlier, prog, file, img, scores, geometry, boxs, trust, last,
                   detections, pick, again>>

\* Mutant of MainRecognize: the engine is also called when the ROI step has
\* not run yet.
MainRecognizeWithoutRoi ==
    /\ prog = "detector" /\ pc \in {"roi", "recognize"}
    /\ \E fails \in BOOLEAN :
         IF fails
         THEN /\ Crash("TesseractError")
              /\ log' = Append(log, "call imageToString")
         ELSE /\ log' = log \o <<"call imageToString", "[INFO] Texto reconhecido:">>
              /\ pc' = "done"
              /\ exc' = exc
    /\ UNCHANGED <<earlier, prog, file, img, scores, geometry, boxs, trust, last,
                   detections, pick, crops, roi, again>>

\* lines 34-37: imageToString, which may raise the engine's error
MainRecognize ==
    /\ prog = "detector" /\ pc = "recognize"
    /\ \E fails \in BOOLEAN :
         IF fails
         THEN /\ Crash("TesseractError")
              /\ log' = Append(log, "call imageToString")
         ELSE /\ log' = log \o <<"call imageToString", "[INFO] Texto reconhecido:">>
              /\ pc' = "done"
              /\ exc' = exc
    /\ UNCHANGED <<earlier, prog, file, img, scores, geometry, boxs, trust, last,
                   detections, pick, crops, roi, again>>

----------------------------------------------------------------------------
(* src/main.py, main *)

\* line 139: imageOrientation, lines 27-31
OcrOrientation ==
    /\ prog = "ocr" /\ pc = "orientation"
    /\ IF readImageWithPIL(file) # "none"
       THEN Crash(readImageWithPIL(file)) /\ log' = log
       ELSE \E fails \in BOOLEAN :
              /\ log' = log \o <<"call imageToOsd",
                                 IF fails
                                 THEN "imageOrientation - Erro no Tesseract"
                                 ELSE "imageOrientation - osd">>
              /\ pc' = "read"
              /\ exc' = exc
    /\ UNCHANGED <<earlier, prog, file, img, scores, geometry, boxs, trust, last,
                   detections, pick, crops, roi, again>>

\* line 141: readImageWithOpenCV
OcrRead ==
    /\ prog = "ocr" /\ pc = "read"
    /\ IF readImageWithOpenCV(file) # "none"
       THEN Crash(readImageWithOpenCV(file)) /\ img' = img
       ELSE /\ \E sz \in ImageSizes : img' = sz
            /\ pc' = "preprocess"
            /\ exc' = exc
    /\ UNCHANGED <<earlier, prog, log, file, scores, geometry, boxs, trust, last,
                   detections, pick, crops, roi, again>>

\* lines 143-149: preProcessing, the window, drawBox (imageToData, line 44)
OcrPreprocess ==
    /\ prog = "ocr" /\ pc = "preprocess"
    /\ IF viewImageWithBox /\ ~advancedProcessing
       THEN \E fails \in BOOLEAN :
              IF fails
              THEN /\ Crash("TesseractError")
                   /\ log' = Append(log, "call imageToData")
              ELSE /\ log' = log \o <<"call imageToData", "Resultado da busca">>
                   /\ pc' = "tostring"
                   /\ exc' = exc
       ELSE /\ pc' = "tostring"
            /\ UNCHANGED <<exc, log>>
    /\ UNCHANGED <<earlier, prog, file, img, scores, geometry, boxs, trust, last,
                   detections, pick, crops, roi, again>>

\* line 151: imageToString inside the print
OcrToString ==
    /\ prog = "ocr" /\ pc = "tostring"
    /\ \E fails \in BOOLEAN :
         IF fails
         THEN /\ Crash("TesseractError")
              /\ log' = Append(log, "call imageToString")
         ELSE /\ log' = log \o <<"call imageToString", "Text to String">>
              /\ pc' = "done"
              /\ exc' = exc
    /\ UNCHANGED <<earlier, prog, file, img, scores, geometry, boxs, trust, last,
                   detections, pick, crops, roi, again>>

Next ==
    \/ MainLoad
    \/ MainDetect
    \/ MainGenerate
    \/ MainExtractROI
    \/ MainRecognize
    \/ OcrOrientation
    \/ OcrRead
    \/ OcrPreprocess
    \/ OcrToString

Spec == Init /\ [][Next]_vars

----------------------------------------------------------------------------
(* Suppression on its own: candidate sets as the scan leaves them, one     *)
(* suppression run, and a second run over the survivors and their scores.  *)

\* Boxes of cell x = 1, y = 0 at angle 0 with a left distance of l px and a
\* bottom distance of b px: <<4 - l, 0, 4, b>>.
NmsBoxes ==
    { geometryCalculations([x \in {1} |-> "zero"], [x \in {1} |-> 0], [x \in {1} |-> 0],
                           [x \in {1} |-> 2 * b], [x \in {1} |-> 2 * l], 1, 0) :
        l \in 0 .. MaxLeft, b \in 0 .. MaxBottom }

NmsScores == {min_confidence, min_confidence + 5}

InitNMS ==
    /\ prog = "nms"
    /\ pc = "suppress"
    /\ file = "image"
    /\ \E n \in 0 .. MaxBoxes :
         /\ boxs \in [1 .. n -> NmsBoxes]
         /\ trust \in [1 .. n -> NmsScores]
    /\ Blank

\* tesseractUtils.py line 150
Suppress ==
    /\ prog = "nms" /\ pc = "suppress"
    /\ \E order \in argsort(trust) :
       \E picked \in { non_max_suppression(boxs, order) } :
         /\ pick' = picked
         /\ detections' = PickedBoxes(boxs, picked)
    /\ pc' = "resuppress"
    /\ UNCHANGED <<earlier, prog, exc, log, file, img, scores, geometry, boxs, trust,
                   last, crops, roi, again>>

\* The survivors' scores, in pick order.
SurvivorScores == [k \in 1 .. Len(pick) |-> trust[pick[k]]]

\* line 150 again, over the survivors
Resuppress ==
    /\ prog = "nms" /\ pc = "resuppress"
    /\ \E order \in argsort(SurvivorScores) :
         again' = PickedBoxes(detections, non_max_suppression(detections, order))
    /\ pc' = "done"
    /\ UNCHANGED <<earlier, prog, exc, log, file, img, scores, geometry, boxs, trust,
                   last, detections, pick, crops, roi>>

NextNMS ==
    \/ Suppress
    \/ Resuppress

SpecNMS == InitNMS /\ [][NextNMS]_vars

----------------------------------------------------------------------------
(* Properties *)

\* The detector pipeline is past generateTextBoundingBoxes.
AfterGenerate == prog = "detector" /\ DOMAIN scores = Cells /\ pc # "generate"

PassingCells == { c \in Cells : scores[c] >= min_confidence }

\* Row-major position of a passing cell among the passing cells.
RankOf(c) ==
    1 + Cardinality({ b \in PassingCells :
                        b[1] < c[1] \/ (b[1] = c[1] /\ b[2] < c[2]) })

CellBox(c) ==
    LET d == geometryData(geometry, c[1])
    IN  geometryCalculations(d.angleData, d.xData0, d.xData1, d.xData2, d.xData3,
                             c[2], c[1])

\* C1: after the scan, started from empty lists, the candidate lists hold
\* exactly one (box, score) entry for every cell whose confidence is greater
\* than or equal to the threshold, in scan order, and nothing else.
C1_CandidatesAreThePassingCells ==
    AfterGenerate =>
        /\ Len(boxs) = Cardinality(PassingCells)
        /\ Len(trust) = Len(boxs)
        /\ \A c \in PassingCells :
              /\ trust[RankOf(c)] = scores[c]
              /\ boxs[RankOf(c)] = CellBox(c)

C1_Witness ==
    /\ AfterGenerate
    /\ \E c \in Cells : scores[c] = min_confidence
    /\ \E c \in Cells : scores[c] < min_confidence
    /\ Len(boxs) = 1
    /\ trust = <<min_confidence>>

\* C2: when no cell clears the threshold, collection and suppression finish
\* without raising, the detection set is empty, and the pipeline reports
\* "no detections" and stops normally.
C2_EmptyDetectionStopsNormally ==
    (AfterGenerate /\ PassingCells = {}) =>
        /\ exc = "none"
        /\ detections = <<>>
        /\ pc = "done"
        /\ log # <<>>
        /\ log[Len(log)] = "[WARN] Nenhuma regiao de texto detectada."

Suppressed == prog = "nms" /\ pc \in {"resuppress", "done"}

Occurrences(seq, b) == Cardinality({ k \in 1 .. Len(seq) : seq[k] = b })

\* C3: every box suppression returns is one of the candidate boxes, with
\* its coordinates unchanged, and no more often than it was a candidate.
C3_OutputIsSubsetOfInput ==
    Suppressed =>
        \A k \in 1 .. Len(detections) :
            /\ \E j \in 1 .. Len(boxs) : detections[k] = boxs[j]
            /\ Occurrences(detections, detections[k]) <= Occurrences(boxs, detections[k])

C3_Witness ==
    /\ Suppressed
    /\ Len(boxs) = 2
    /\ Len(detections) = 1
    /\ boxs[1] # boxs[2]

UnionArea(a, b) == Area(a) + Area(b) - InterArea(a, b)

\* C4 as claimed: any two boxes of the output have an overlap ratio
\* (intersection over union) strictly below the suppression threshold.
C4_OverlapStrictlyBelow ==
    Suppressed =>
        \A i, j \in 1 .. Len(detections) :
            i < j =>
                overlapDen * InterArea(detections[i], detections[j])
                    < overlapNum * UnionArea(detections[i], detections[j])

\* C4 as amended: of any two boxes of the output, the intersection is at most
\* the threshold's share of the later-picked box's area, and so of the
\* union; the ratio may equal the threshold.
C4_OverlapAtMost ==
    Suppressed =>
        \A i, j \in 1 .. Len(detections) :
            i < j =>
                /\ overlapDen * InterArea(detections[i], detections[j])
                       <= overlapNum * Area(detections[j])
                /\ overlapDen * InterArea(detections[i], detections[j])
                       <= overlapNum * UnionArea(detections[i], detections[j])

C4_Witness ==
    /\ Suppressed
    /\ Len(detections) = 2
    /\ overlapDen * InterArea(detections[1], detections[2])
           = overlapNum * Area(detections[2])

AsSet(seq) == { seq[k] : k \in 1 .. Len(seq) }

\* C5: suppression run again on its own output, with the survivors' scores,
\* returns the same set of boxes.
C5_Idempotent ==
    (prog = "nms" /\ pc = "done") => AsSet(again) = AsSet(detections)

\* Two overlapping candidates with different scores, suppression done.
TwoOverlapping ==
    /\ Suppressed
    /\ Len(boxs) = 2
    /\ trust[1] # trust[2]
    /\ InterArea(boxs[1], boxs[2]) > 0

Higher == IF trust[1] > trust[2] THEN boxs[1] ELSE boxs[2]
Lower == IF trust[1] > trust[2] THEN boxs[2] ELSE boxs[1]

\* C6 as claimed, the overlap ratio being intersection over union: above the
\* threshold only the higher-scored box survives, below it both survive.
C6_TwoBoxesByIoU ==
    TwoOverlapping =>
        /\ overlapDen * InterArea(boxs[1], boxs[2]) > overlapNum * UnionArea(boxs[1], boxs[2])
              => detections = <<Higher>>
        /\ overlapDen * InterArea(boxs[1], boxs[2]) < overlapNum * UnionArea(boxs[1], boxs[2])
              => AsSet(detections) = {boxs[1], boxs[2]}

\* C6 as amended, the overlap ratio being intersection over the area of the
\* lower-scored box: above the threshold only the higher-scored box
\* survives, at or below it both survive.
C6_TwoBoxesByCandidateArea ==
    TwoOverlapping =>
        /\ overlapDen * InterArea(boxs[1], boxs[2]) > overlapNum * Area(Lower)
              => detections = <<Higher>>
        /\ overlapDen * InterArea(boxs[1], boxs[2]) <= overlapNum * Area(Lower)
              => /\ Len(detections) = 2
                 /\ AsSet(detections) = {boxs[1], boxs[2]}

C6_Witness ==
    /\ TwoOverlapping
    /\ overlapDen * InterArea(boxs[1], boxs[2]) < overlapNum * UnionArea(boxs[1], boxs[2])
    /\ overlapDen * InterArea(boxs[1], boxs[2]) > overlapNum * Area(Lower)
    /\ detections = <<Higher>>

\* C7: every crop extractAndDrawROI takes is the margin-expanded rectangle
\* clamped to the image: it starts at max(0, start - margin) and ends at
\* min(size, end + margin), never wrapped around.
C7_CropIsClamped ==
    (prog = "detector" /\ crops # <<>>) =>
        \A k \in 1 .. Len(crops) :
            /\ crops[k].x0 = Max(0, Min(img[1], crops[k].fromX))
            /\ crops[k].x1 = Max(0, Min(img[1], crops[k].toX))
            /\ crops[k].y0 = Max(0, Min(img[2], crops[k].fromY))
            /\ crops[k].y1 = Max(0, Min(img[2], crops[k].toY))

\* C8: when the crop of the last surviving box is empty, ROI extraction hands
\* an empty result to the caller without raising, and the run ends without
\* calling the recognition engine.
C8_EmptyRoiIsSignalled ==
    (/\ prog = "detector"
     /\ crops # <<>>
     /\ CropWidth(crops[Len(crops)]) * CropHeight(crops[Len(crops)]) = 0) =>
        /\ exc = "none"
        /\ pc = "done"
        /\ \A k \in 1 .. Len(log) : log[k] # "call imageToString"

\* readImageWithOpenCV has run on a path cv2.imread could not decode.
ReadFailed ==
    \/ prog = "detector" /\ pc # "load" /\ file # "image"
    \/ prog = "ocr" /\ pc \notin {"orientation", "read"} /\ file = "pil_only"

\* C9: when cv2.imread returns no image, readImageWithOpenCV raises
\* FileNotFoundError and nothing else.
C9_MissingImageRaisesNotFound == ReadFailed => exc = "FileNotFoundError"

\* C10: no engine error leaves an entry point: every imageToOsd,
\* imageToString and imageToData call is caught where it is made.
C10_EngineErrorsAreCaught == exc # "TesseractError"

----------------------------------------------------------------------------
(* The detector pipeline run on one image after another: lines 19-23 of    *)
(* src/src/main.py once per image, each time with the lists of line 20.    *)
(* earlier keeps what the call before left in its lists.                   *)

MaxCalls == 2

\* Confidence maps of one image: no cell, every cell, only the first or only
\* the last cell passes the threshold; passing confidences rise along the scan.
CallScoreMaps ==
    { [c \in Cells |-> IF c \in S THEN min_confidence + 1 + (c[1] * Columns) + c[2]
                                   ELSE min_confidence - 1] :
        S \in { {}, Cells, {<<0, 0>>}, {<<Rows - 1, Columns - 1>>} } }

InitCalls ==
    /\ prog = "calls"
    /\ pc = "call"
    /\ file = "image"
    /\ boxs = <<>>
    /\ trust = <<>>
    /\ Blank

\* src/src/main.py lines 19-23 for the next image
CallGenerate ==
    /\ prog = "calls" /\ pc = "call"
    /\ Len(log) < MaxCalls
    /\ \E sc \in CallScoreMaps, geo \in GeometryMaps :
       \E acc \in { Scanned(Rows, sc, geo, Columns, min_confidence,
                             FreshLists.trust, FreshLists.boxs) } :
       \E order \in argsort(acc.trust) :
       \E g \in { generateTextBoundingBoxes(Rows, sc, geo, Columns, min_confidence,
                                            FreshLists.trust, FreshLists.boxs, order) } :
             /\ scores' = sc
             /\ geometry' = geo
             /\ boxs' = g.boxs
             /\ trust' = g.trust
             /\ last' = g.last
             /\ pick' = g.pick
             /\ detections' = g.detections
             /\ exc' = g.raised
    /\ earlier' = <<boxs, trust>>
    /\ log' = Append(log, "call generateTextBoundingBoxes")
    /\ UNCHANGED <<prog, pc, file, img, crops, roi, again>>

NextCalls == CallGenerate

SpecCalls == InitCalls /\ [][NextCalls]_vars

\* At least one call of the sequence has returned or raised.
AfterCall == prog = "calls" /\ Len(log) >= 1

----------------------------------------------------------------------------
(* geometryCalculations on its own: a geometry map that carries one cell   *)
(* of interest, the only cell whose confidence passes the threshold, with  *)
(* any distances up to MaxDist half pixels and any of the three angles.    *)
(* EAST's distance channels are distances to the box sides: not negative.  *)

MaxDist == 3

Angles == {"zero", "tilt", "lean"}

GeomInputs ==
    { <<d0, d1, d2, d3, a>> :
        d0 \in 0 .. MaxDist, d1 \in 0 .. MaxDist, d2 \in 0 .. MaxDist,
        d3 \in 0 .. MaxDist, a \in Angles }

InitGeom ==
    /\ prog = "geom"
    /\ pc = "scan"
    /\ file = "image"
    /\ boxs = <<>>
    /\ trust = <<>>
    /\ exc = "none"
    /\ log = <<>>
    /\ img = <<0, 0>>
    /\ last = Unbound
    /\ detections = <<>>
    /\ pick = <<>>
    /\ crops = <<>>
    /\ roi = NoRoi
    /\ again = <<>>
    /\ earlier = <<<<>>, <<>>>>
    /\ \E c \in Cells, v \in GeomInputs :
         /\ scores = [d \in Cells |-> IF d = c THEN min_confidence
                                               ELSE min_confidence - 1]
         /\ geometry = [d \in Cells |-> IF d = c THEN v ELSE <<0, 0, 0, 0, "zero">>]

\* tesseractUtils.py lines 138-146: the scan, which calls geometryData per
\* row and geometryCalculations per cell
GeomScan ==
    /\ prog = "geom" /\ pc = "scan"
    /\ \E acc \in { Scanned(Rows, scores, geometry, Columns, min_confidence,
                             FreshLists.trust, FreshLists.boxs) } :
         /\ boxs' = acc.boxs
         /\ trust' = acc.trust
         /\ last' = acc.last
    /\ pc' = "done"
    /\ UNCHANGED <<earlier, prog, exc, log, file, img, scores, geometry, detections,
                   pick, crops, roi, again>>

NextGeom == GeomScan

SpecGeom == InitGeom /\ [][NextGeom]_vars

\* The scan of the single-cell map is over.
GeomDone == prog = "geom" /\ pc = "done"

\* The cell of interest and its geometry entry.
TheCell == CHOOSE c \in Cells : scores[c] >= min_confidence
TheGeometry == geometry[TheCell]

\* C12: every box the scan hands to suppression has startX <= endX and
\* startY <= endY, at every cell, every angle and every distance.
C12_BoxesAreOrdered ==
    GeomDone =>
        \A k \in 1 .. Len(boxs) :
            /\ boxs[k][1] <= boxs[k][3]
            /\ boxs[k][2] <= boxs[k][4]

\* A rotated cell away from the origin whose differences endX - w and
\* endY - h are not whole pixels.
C12_Witness ==
    /\ GeomDone
    /\ Len(boxs) = 1
    /\ TheGeometry[5] # "zero"
    /\ TheCell[2] > 0
    /\ (TheGeometry[2] + TheGeometry[4]) % 2 = 1
    /\ (TheGeometry[1] + TheGeometry[3]) % 2 = 1
    /\ boxs[1][1] < boxs[1][3]
    /\ boxs[1][2] < boxs[1][4]

\* The cell of interest is at angle 0; x and y are its column and row, and
\* d_top, d_right, d_bottom, d_left its geometry channels 0, 1, 2, 3, in
\* half pixels.
ZeroAngleBox == GeomDone /\ Len(boxs) = 1 /\ TheGeometry[5] = "zero"

\* C13 as stated: at angle 0 the box is the additive offsets themselves,
\*   endX = 4x + d_right,  endY = 4y + d_bottom,
\*   startX = endX - (d_right + d_left),  startY = endY - (d_top + d_bottom).
C13_ZeroAngleIsAdditive ==
    ZeroAngleBox =>
        LET x == TheCell[2]
            y == TheCell[1]
            g == TheGeometry
        IN  /\ 2 * boxs[1][3] = (2 * 4 * x) + g[2]
            /\ 2 * boxs[1][4] = (2 * 4 * y) + g[3]
            /\ 2 * boxs[1][1] = (2 * boxs[1][3]) - (g[2] + g[4])
            /\ 2 * boxs[1][2] = (2 * boxs[1][4]) - (g[1] + g[3])

\* C13: at angle 0 the box is the additive offsets, each cut to a whole
\* pixel toward zero:
\*   endX = int(4x + d_right),  endY = int(4y + d_bottom),
\*   startX = int(endX - (d_right + d_left)),
\*   startY = int(endY - (d_top + d_bottom)),
\* with endX and endY already cut when startX and startY are taken.
C13_ZeroAngleIsAdditiveTruncated ==
    ZeroAngleBox =>
        LET x == TheCell[2]
            y == TheCell[1]
            g == TheGeometry
            halves(n) == IF n >= 0 THEN n \div 2 ELSE -((-n) \div 2)
        IN  /\ boxs[1][3] = halves((2 * 4 * x) + g[2])
            /\ boxs[1][4] = halves((2 * 4 * y) + g[3])
            /\ boxs[1][1] = halves((2 * boxs[1][3]) - (g[2] + g[4]))
            /\ boxs[1][2] = halves((2 * boxs[1][4]) - (g[1] + g[3]))

\* A cell away from the origin whose right distance is not a whole pixel
\* and differs from its left distance.
C13_Witness ==
    /\ ZeroAngleBox
    /\ TheCell[2] > 0
    /\ TheGeometry[2] % 2 = 1
    /\ TheGeometry[2] # TheGeometry[4]
    /\ TheGeometry[1] # TheGeometry[3]

----------------------------------------------------------------------------
(* extractAndDrawROI in the detector pipeline *)

\* extractAndDrawROI ran on at least one detection and returned.
RoiReturned ==
    /\ prog = "detector"
    /\ crops # <<>>
    /\ exc \in {"none", "TesseractError"}

\* C14: whatever the number of boxes that survive suppression, the region
\* extractAndDrawROI returns is the slice taken for the LAST detection only:
\* that box rescaled by the image proportions, widened by the margin on every
\* side and resolved as a numpy slice, then resized by 1.5.  One slice is
\* taken per detection, and neither an earlier detection nor the coordinates
\* passed in as arguments decide the result.
C14_RoiIsTheLastDetection ==
    RoiReturned =>
        LET b  == detections[Len(detections)]
            sX == TruncDiv(b[1] * img[1], width)
            sY == TruncDiv(b[2] * img[2], height)
            eX == TruncDiv(b[3] * img[1], width)
            eY == TruncDiv(b[4] * img[2], height)
        IN  /\ Len(crops) = Len(detections)
            /\ roi.x0 = SliceBound(sX - margin, img[1])
            /\ roi.x1 = SliceBound(eX + margin, img[1])
            /\ roi.y0 = SliceBound(sY - margin, img[2])
            /\ roi.y1 = SliceBound(eY + margin, img[2])
            /\ roi.w = Upscaled(roi.x1 - roi.x0)
            /\ roi.h = Upscaled(roi.y1 - roi.y0)

\* Two boxes survived, the function returned, and the slice of the first
\* detection is not the region returned.
C14_Witness ==
    /\ RoiReturned
    /\ Len(detections) = 2
    /\ detections[1] # detections[2]
    /\ <<crops[1].x0, crops[1].x1, crops[1].y0, crops[1].y1>>
          # <<roi.x0, roi.x1, roi.y0, roi.y1>>
    /\ <<crops[2].x0, crops[2].x1, crops[2].y0, crops[2].y1>>
          = <<roi.x0, roi.x1, roi.y0, roi.y1>>

----------------------------------------------------------------------------
(* Stage order of the detector pipeline *)

\* Position of a stage in main; a run that has ended, by return or by an
\* exception, is past every stage.
StageRank(p) ==
    CASE p = "load"      -> 1
      [] p = "detect"    -> 2
      [] p = "generate"  -> 3
      [] p = "roi"       -> 4
      [] p = "recognize" -> 5
      [] OTHER           -> 6

EngineCalls == Cardinality({ k \in 1 .. Len(log) : log[k] = "call imageToString" })

\* What holds in every state of a run: the engine was called at most once,
\* a call was preceded by a non-empty detection set and a non-empty ROI, and
\* once suppression has left an empty detection set neither the ROI step nor
\* the engine runs.
StagesGuarded ==
    prog = "detector" =>
        /\ EngineCalls <= 1
        /\ EngineCalls = 1 =>
              /\ Len(detections) > 0
              /\ crops # <<>>
              /\ roi.w > 0 /\ roi.h > 0
              /\ StageRank(pc) = 6
        /\ StageRank(pc) \in {4, 5} => Len(detections) > 0
        /\ StageRank(pc) = 5 => roi.w > 0 /\ roi.h > 0
        /\ (StageRank(pc) > 3 /\ Len(detections) = 0) =>
              /\ crops = <<>>
              /\ roi = NoRoi
              /\ EngineCalls = 0
              /\ StageRank(pc) = 6

\* What holds of every step of a run: it moves to the next stage or ends
\* the run, the ROI is taken only at the ROI stage and the engine is called
\* only at the recognition stage.
StagesInOrder ==
    prog = "detector" =>
        /\ pc' # pc =>
              \/ StageRank(pc') = StageRank(pc) + 1
              \/ StageRank(pc') = 6
        /\ crops' # crops => pc = "roi"
        /\ log' # log /\ EngineCalls' # EngineCalls => pc = "recognize"
        /\ detections' # detections => pc = "generate"

\* C15: the stages of main run in the order load, detect, collect/suppress,
\* ROI extraction, recognition; imageToString is invoked at most once per
\* run and only after a non-empty detection set and a non-empty ROI; with an
\* empty detection set neither ROI extraction nor recognition is invoked.
C15_StagesInOrderAndGuarded == [][StagesInOrder]_vars /\ []StagesGuarded

\* A run that went through every stage and called the engine.
C15_Witness ==
    /\ prog = "detector"
    /\ pc = "done"
    /\ EngineCalls = 1
    /\ Len(detections) > 0
    /\ roi.w > 0

====
